---- MODULE Spec2Model ----
(***************************************************************************)
(* Model of diecast/git: GitCommit::handle (src/src/lib.rs), the           *)
(* last-touching-commit resolver.  One call of handle() is a state machine *)
(* over a repository (commit graph + trees), the items of the bind, the    *)
(* revision the GitCommit was constructed with, and the locals of handle:  *)
(* paths (the active set), revwalk, cache, and the items' extensions.      *)
(***************************************************************************)
EXTENDS Integers, Sequences, FiniteSets, TLC

\* ---------------------------------------------------------------- bounds
MaxCommits == 4
MaxItems == 2

\* ---------------------------------------------------------------- values
Commits == 1..MaxCommits
NoCommit == 0
Paths == {"a.txt", "b.txt"}
\* an item whose source() is None, is not UTF-8, or has an interior NUL:
\* one of the unwrap()s of lines 94-99 panics on it
Malformed == "<malformed>"
Revisions == {"HEAD", "origin/master", "nope"}
NoBlob == 0

\* LastCommit (lines 53-58) behind an Arc; ptr is the allocation's identity
NoExt == [ptr |-> 0, sha |-> 0, summary |-> 0, time |-> 0]

\* Oid -> hex string (line 168): distinct ids give distinct strings
OidToString(c) == 100 + c
\* commit.time() (line 173): ids are numbered in commit-time order
CommitTime(repo, c) == repo.time[c]
\* commit.summary() (line 167), when it can be decoded
CommitSummary(repo, c) == repo.summary[c]

\* ------------------------------------------------------------ repository
\* History shapes.  Shape 0 is the linear chain 1 <- 2 <- ... <- N.  Shape k
\* has commit k merging k-1 and k-2, two branches that both start at k-3
\* (two unrelated roots when k = 3); the merge is HEAD or HEAD's parent.
Shapes == {0} \cup {k \in {MaxCommits - 1, MaxCommits} : k >= 3}

ShapeParents(k) ==
    [c \in Commits |->
        IF c = 1 THEN << >>
        ELSE IF c = k THEN <<c - 1, c - 2>>
        ELSE IF c = k - 1 THEN (IF c - 2 >= 1 THEN <<c - 2>> ELSE << >>)
        ELSE <<c - 1>>]

\* Blobs are content addressed: a commit that writes a path creates blob c,
\* a commit that leaves it alone keeps its parent's blob, a merge takes the
\* blob of either side.  (No commit of the family deletes a path: a deletion
\* is one more way for the blob to differ from the parent's.)
BlobChoices(par, t, c, p) ==
    IF Len(par[c]) = 0 THEN {NoBlob, c}
    ELSE IF Len(par[c]) = 1 THEN {t[par[c][1]][p], c}
    ELSE {t[par[c][1]][p], t[par[c][2]][p]}

\* The trees commit c can have.  Paths is the repository's whole file set
\* and git makes no empty commit: a commit that is not a merge writes at
\* least one path.
TreeChoices(par, t, c) ==
    {tr \in [Paths -> 0..c] :
        /\ \A p \in Paths : tr[p] \in BlobChoices(par, t, c, p)
        /\ Len(par[c]) <= 1 => \E p \in Paths : tr[p] = c}

RECURSIVE TreesUpTo(_, _)
TreesUpTo(par, n) ==
    IF n = 0 THEN {<< >>}
    ELSE {Append(t, tr) : <<t, tr>> \in
            {<<t, tr>> \in TreesUpTo(par, n - 1) \X [Paths -> 0..n] :
                tr \in TreeChoices(par, t, n)}}

Refs == [r \in {"HEAD", "origin/master"} |->
            IF r = "HEAD" THEN MaxCommits ELSE MaxCommits - 1]

Repos ==
    UNION {{[parents |-> ShapeParents(k), tree |-> t, refs |-> Refs,
             time |-> [c \in Commits |-> 1000 + c],
             summary |-> [c \in Commits |-> 2000 + c]] :
                t \in TreesUpTo(ShapeParents(k), MaxCommits)} : k \in Shapes}

RECURSIVE Ancestors(_, _)
\* c and everything reachable from c through parent links
Ancestors(repo, c) ==
    {c} \cup UNION {Ancestors(repo, repo.parents[c][i]) : i \in 1..Len(repo.parents[c])}

RECURSIVE Descending(_)
Descending(S) ==
    IF S = {} THEN << >>
    ELSE LET m == CHOOSE x \in S : \A y \in S : y <= x
         IN <<m>> \o Descending(S \ {m})

\* variant: the walker is started from HEAD whatever the revision
WalkFromHead(repo, start) == Descending(Ancestors(repo, repo.refs["HEAD"]))

\* revwalk after push(start): every commit reachable from start, newest first
WalkOrder(repo, start) == Descending(Ancestors(repo, start))

\* repo.revparse_single(rev).peel(Commit) (lines 105-106)
RevParse(repo, rev) ==
    IF rev \in DOMAIN repo.refs THEN repo.refs[rev] ELSE NoCommit

\* from_revision / from_head (lines 38-50)
from_revision(rev) == [revision |-> rev]
\* variant: the convenience constructor names the remote branch
from_head_remote == [revision |-> "origin/master"]
from_head == [revision |-> "HEAD"]

\* ------------------------------------------------------------- matching
\* diff_tree_to_tree(parent.tree, commit.tree, diffopts) (lines 128-134):
\* the paths whose blob differs, limited to diffopts' pathspec (line 96),
\* which holds every item's path, matched literally (line 85)
MatchWithParent(repo, c, pathspec) ==
    LET a == repo.tree[repo.parents[c][1]]
        b == repo.tree[c]
    IN {p \in Paths : p \in pathspec /\ a[p] # b[p]}

\* MatchKind::Tree(commit.tree()) (line 147)
TreePaths(repo, c) == {p \in Paths : repo.tree[c][p] # NoBlob}

\* variant: a root commit is matched against an empty diff
MatchTargetDiffOnly(repo, c, pathspec) ==
    IF Len(repo.parents[c]) = 0 THEN {} ELSE MatchWithParent(repo, c, pathspec)

\* variant: every commit is matched against its full tree
MatchTargetTreeOnly(repo, c, pathspec) == TreePaths(repo, c)

\* lines 145-157: what a path is tested against for commit c
MatchTarget(repo, c, pathspec) ==
    IF Len(repo.parents[c]) = 0 THEN TreePaths(repo, c)
    ELSE MatchWithParent(repo, c, pathspec)

\* -------------------------------------------------------------- state
VARIABLES
    revision,    \* GitCommit.revision
    items,       \* the bind's items: items[i] is item i's source path
    repo,        \* the repository found by discover
    pc,          \* position in handle()
    result,      \* "none" while running, then "Ok", "Err" or "panic"
    paths,       \* the VecDeque of unresolved items (indices into items)
    revwalk,     \* ids the walker has still to yield
    cache,       \* HashMap<Oid, Arc<LastCommit>>
    extensions,  \* item.extensions[LastCommit] per item
    nalloc,      \* number of Arc<LastCommit> allocated so far
    visited,     \* ids loaded with find_commit, in order
    computed,    \* ids for which a tree or diff was computed
    extracted,   \* per commit id, how often its metadata was extracted
    exit,        \* the return or panic site that ended the call
    failedAt,    \* the commit being processed when the call failed, if any
    round,       \* 1 for a first call of handle(), 2 for a repeated one
    first        \* what the first call ended with, once it is repeated

vars == <<revision, items, repo, pc, result, paths, revwalk, cache,
          extensions, nalloc, visited, computed, extracted, exit, failedAt,
          round, first>>

NoFirst == [result |-> "none", exit |-> "none", failedAt |-> NoCommit,
            values |-> << >>]

RECURSIVE SeqsUpTo(_, _)
SeqsUpTo(S, n) ==
    IF n = 0 THEN {<< >>}
    ELSE SeqsUpTo(S, n - 1) \cup
         {Append(s, x) : <<s, x>> \in {q \in SeqsUpTo(S, n - 1) : Len(q) = n - 1} \X S}

ItemLists == SeqsUpTo(Paths \cup {Malformed}, MaxItems)

Init ==
    /\ revision \in {from_revision(rev).revision : rev \in Revisions}
                       \cup {from_head.revision}
    /\ items \in ItemLists
    /\ repo \in Repos
    /\ pc = "discover"
    /\ result = "none"
    /\ paths = << >>
    /\ revwalk = << >>
    /\ cache = [c \in Commits |-> NoExt]
    /\ extensions = [i \in 1..Len(items) |-> NoExt]
    /\ nalloc = 0
    /\ visited = << >>
    /\ computed = {}
    /\ extracted = [c \in Commits |-> 0]
    /\ exit = "none"
    /\ failedAt = NoCommit
    /\ round = 1
    /\ first = NoFirst

\* A repeated call meets the same unchanged repository and directory: every
\* library call answers as it did in the first call.  A call is repeated
\* only when its walk read every object without a fault, so the repeated
\* walk meets none either.
FoundAgain == first.exit # "discover"
PushedAgain == first.exit # "push"
FaultAgain(c) == "none"

\* variant: a failed discovery is propagated
DiscoverFailedErr == "Err"
\* line 73: no repository, return Ok(())
DiscoverFailed == "Ok"
\* variant: a failed push is propagated
PushFailedErr == "Err"
\* line 112: push failed, return Ok(())
PushFailed == "Ok"
\* variant: paths left unresolved at the end of the walk are an error
WalkerExhaustedStrict(ps) == IF ps # << >> THEN "Err" ELSE "Ok"
\* line 182: the loop is over, Ok(())
WalkerExhausted(ps) == "Ok"

Finish(r, site, c) ==
    /\ pc' = "done"
    /\ result' = r
    /\ exit' = site
    /\ failedAt' = c

Continue(next) ==
    /\ pc' = next
    /\ UNCHANGED <<result, exit, failedAt>>

Attached(i) == extensions[i] # NoExt
PathSpecOf == {items[i] : i \in 1..Len(items)}
Range(s) == {s[i] : i \in 1..Len(s)}

\* lines 69-75: Repository::discover(".")
Discover ==
    /\ pc = "discover"
    /\ \E found \in BOOLEAN :
          /\ round = 2 => found = FoundAgain
          /\ IF found THEN Continue("compile")
             ELSE Finish(DiscoverFailed, "discover", NoCommit)
    /\ UNCHANGED <<revision, items, repo, paths, revwalk, cache, extensions,
                   nalloc, visited, computed, extracted, round, first>>

\* lines 93-101: one iteration of the loop over the bind's items
Compile ==
    /\ pc = "compile"
    /\ Len(paths) < Len(items)
    /\ LET i == Len(paths) + 1
       IN IF items[i] = Malformed
          THEN Finish("panic", "malformed", NoCommit) /\ paths' = paths
          ELSE paths' = Append(paths, i) /\ Continue("compile")
    /\ UNCHANGED <<revision, items, repo, revwalk, cache, extensions,
                   nalloc, visited, computed, extracted, round, first>>

\* lines 103-106: revparse_single + peel once every item is compiled
\* (repo.revwalk() of line 103 only allocates the walker)
Revparse ==
    /\ pc = "compile"
    /\ Len(paths) = Len(items)
    /\ IF RevParse(repo, revision) = NoCommit
       THEN Finish("Err", "revision", NoCommit)
       ELSE Continue("push")
    /\ UNCHANGED <<revision, items, repo, paths, revwalk, cache, extensions,
                   nalloc, visited, computed, extracted, round, first>>

\* lines 108-114: revwalk.push(commit.id())
Push ==
    /\ pc = "push"
    /\ \E pushed \in BOOLEAN :
          /\ round = 2 => pushed = PushedAgain
          /\ IF pushed
             THEN /\ Continue("walk")
                  /\ revwalk' = WalkOrder(repo, RevParse(repo, revision))
             ELSE Finish(PushFailed, "push", NoCommit) /\ revwalk' = revwalk
    /\ UNCHANGED <<revision, items, repo, paths, cache, extensions,
                   nalloc, visited, computed, extracted, round, first>>

\* what the library calls of one loop iteration can come back with
Faults == {"none", "walk", "commit", "parent", "tree", "summary"}

\* variant: merge commits are not skipped
SkipNever(rp, c) == FALSE

\* line 124: ignore merge commits
SkipCommit(rp, c) == Len(rp.parents[c]) > 1

\* variant: a new Arc<LastCommit> is built for every match
CacheEntryFresh(cch, c, fresh) == fresh

\* variant: the record is stamped with the time of the call, not the commit's
CacheEntryNow(cch, c, fresh) ==
    IF cch[c] # NoExt THEN cch[c] ELSE [fresh EXCEPT !.time = 3000 + round]

\* lines 164-176: cache.entry(id).or_insert_with(|| Arc::new(..)).clone()
CacheEntry(cch, c, fresh) == IF cch[c] # NoExt THEN cch[c] ELSE fresh

\* lines 153-162: does the item's pathspec match the commit's match target
Matched(its, i, target) == its[i] \in target

\* variant: an unmatched pair is put back at the front of the deque
CarryForwardFront(ps, i) == <<i>> \o ps

\* line 160: paths.push_back((item, path)) for an unmatched pair
CarryForward(ps, i) == Append(ps, i)

\* variant: a matched pair is pushed back as well
AfterMatchKeep(ps, i) == Append(ps, i)

\* lines 164-178: a matched pair is consumed, not pushed back
AfterMatch(ps, i) == ps

\* lines 152-179: the loop over the drained active set, for commit c.
\* st carries paths, cache, extensions, nalloc, extracted; decodable says
\* whether commit.summary() is Some (line 167 unwraps it).
RECURSIVE MatchLoop(_, _, _, _, _, _, _)
MatchLoop(rp, its, c, target, decodable, remaining, st) ==
    IF remaining = << >> \/ st.panicked THEN st
    ELSE LET i == Head(remaining)
             rest == Tail(remaining)
         IN IF ~Matched(its, i, target)
            THEN MatchLoop(rp, its, c, target, decodable, rest,
                           [st EXCEPT !.paths = CarryForward(@, i)])
            ELSE LET fresh == [ptr |-> st.nalloc + 1,
                               sha |-> OidToString(c),
                               summary |-> CommitSummary(rp, c),
                               time |-> CommitTime(rp, c)]
                     git == CacheEntry(st.cache, c, fresh)
                     made == git = fresh
                 IN IF made /\ ~decodable
                    THEN [st EXCEPT !.panicked = TRUE]
                    ELSE MatchLoop(rp, its, c, target, decodable, rest,
                           [st EXCEPT !.paths = AfterMatch(@, i),
                                      !.cache[c] = git,
                                      !.extensions[i] = git,
                                      !.nalloc = IF made THEN @ + 1 ELSE @,
                                      !.extracted[c] = IF made THEN @ + 1 ELSE @])

LoopState == [paths |-> << >>, cache |-> cache, extensions |-> extensions,
              nalloc |-> nalloc, extracted |-> extracted, panicked |-> FALSE]

\* lines 118-180: one iteration of `for id in revwalk`
Step ==
    /\ pc = "walk"
    /\ revwalk # << >>
    /\ LET c == Head(revwalk)
           merge == SkipCommit(repo, c)
           root == Len(repo.parents[c]) = 0
           target == MatchTarget(repo, c, PathSpecOf)
       IN \E fault \in {f \in Faults : round = 2 => f = FaultAgain(c)} :
          \/ \* line 119: the walker yields an error
             /\ fault = "walk"
             /\ Finish("Err", "walk", c)
             /\ UNCHANGED <<paths, revwalk, cache, extensions, nalloc,
                            visited, computed, extracted>>
          \/ \* line 120: find_commit fails
             /\ fault = "commit"
             /\ Finish("Err", "commit", c)
             /\ revwalk' = Tail(revwalk)
             /\ UNCHANGED <<paths, cache, extensions, nalloc, visited,
                            computed, extracted>>
          \/ \* line 124: merge commit, continue
             /\ fault = "none" /\ merge
             /\ revwalk' = Tail(revwalk)
             /\ visited' = Append(visited, c)
             /\ Continue("walk")
             /\ UNCHANGED <<paths, cache, extensions, nalloc,
                            computed, extracted>>
          \/ \* line 149: commit.parent(0).unwrap() on an unreadable parent
             /\ fault = "parent" /\ ~merge /\ ~root
             /\ Finish("panic", "parent", c)
             /\ revwalk' = Tail(revwalk)
             /\ visited' = Append(visited, c)
             /\ paths' = << >>
             /\ UNCHANGED <<cache, extensions, nalloc, computed, extracted>>
          \/ \* line 147: tree() fails; lines 130-132: tree() or
             \* diff_tree_to_tree fails
             /\ ~merge
             /\ fault = "tree"
             /\ Finish("Err", IF root THEN "tree" ELSE "diff", c)
             /\ revwalk' = Tail(revwalk)
             /\ visited' = Append(visited, c)
             /\ computed' = computed \cup {c}
             /\ paths' = << >>
             /\ UNCHANGED <<cache, extensions, nalloc, extracted>>
          \/ \* lines 136-179: match the remaining paths against the target
             /\ ~merge
             /\ fault \in {"none", "summary"}
             /\ LET st == MatchLoop(repo, items, c, target, fault = "none",
                                    paths, LoopState)
                IN /\ st.panicked <=> fault = "summary"
                   /\ IF st.panicked THEN Finish("panic", "summary", c)
                      ELSE Continue("walk")
                   /\ paths' = st.paths
                   /\ cache' = st.cache
                   /\ extensions' = st.extensions
                   /\ nalloc' = st.nalloc
                   /\ extracted' = st.extracted
             /\ revwalk' = Tail(revwalk)
             /\ visited' = Append(visited, c)
             /\ computed' = computed \cup {c}
    /\ UNCHANGED <<revision, items, repo, round, first>>

\* line 118 falls through to line 182 when the walker has nothing left
Exhausted ==
    /\ pc = "walk"
    /\ revwalk = << >>
    /\ Finish(WalkerExhausted(paths), "exhausted", NoCommit)
    /\ UNCHANGED <<revision, items, repo, paths, revwalk, cache, extensions,
                   nalloc, visited, computed, extracted, round, first>>

Next == Discover \/ Compile \/ Revparse \/ Push \/ Step \/ Exhausted

Spec == Init /\ [][Next]_vars

\* the fields of a LastCommit (lines 54-58), without the Arc's identity
ValueOf(e) == [sha |-> e.sha, summary |-> e.summary, time |-> e.time]

\* A second call of handle() on a resolver holding revision rev, for the
\* same paths (fresh items) and the same repository, after a first call
\* that met no fault in the walk: the locals of lines 69-116 start anew,
\* what the first call ended with is kept in first.
Restart(rev) ==
    /\ pc = "done" /\ round = 1
    /\ failedAt = NoCommit
    /\ round' = 2
    /\ first' = [result |-> result, exit |-> exit, failedAt |-> failedAt,
                 values |-> [i \in 1..Len(items) |-> ValueOf(extensions[i])]]
    /\ revision' = rev
    /\ pc' = "discover"
    /\ result' = "none"
    /\ paths' = << >>
    /\ revwalk' = << >>
    /\ cache' = [c \in Commits |-> NoExt]
    /\ extensions' = [i \in 1..Len(items) |-> NoExt]
    /\ visited' = << >>
    /\ computed' = {}
    /\ extracted' = [c \in Commits |-> 0]
    /\ exit' = "none"
    /\ failedAt' = NoCommit
    /\ UNCHANGED <<items, repo, nalloc>>

\* the same call once more: from_revision with the same revision
Again == Restart(from_revision(revision).revision)

NextRepeat == Next \/ Again

SpecRepeat == Init /\ [][NextRepeat]_vars

\* a call on from_head(), then the call on from_revision("HEAD")
InitHead == Init /\ revision = from_head.revision

AgainFromRevision == Restart(from_revision("HEAD").revision)

NextHead == Next \/ AgainFromRevision

SpecHead == InitHead /\ [][NextHead]_vars

\* ------------------------------------------------------------ properties
IsMerge(c) == Len(repo.parents[c]) > 1
IsRoot(c) == Len(repo.parents[c]) = 0
\* the commit a LastCommit record names
CommitOf(e) == CHOOSE c \in Commits : OidToString(c) = e.sha
\* the commit the revision names, and what is reachable from it
Start == repo.refs[revision]
Reachable == IF revision \in DOMAIN repo.refs THEN Ancestors(repo, Start) ELSE {}
\* commit c is not a merge and changed path p: p is in c's tree if c is a
\* root, p's blob differs from the one in c's only parent otherwise
Touches(c, p) ==
    /\ ~IsMerge(c)
    /\ IF IsRoot(c) THEN repo.tree[c][p] # NoBlob
       ELSE repo.tree[c][p] # repo.tree[repo.parents[c][1]][p]
ItemIds == 1..Len(items)

\* C1: a result attached to the target of path p names the newest commit
\* reachable from the starting revision that is not a merge and whose match
\* target (tree for a root, diff against the parent otherwise) contains p.
C1_MostRecentTouch ==
    \A i \in ItemIds : Attached(i) =>
        LET c == CommitOf(extensions[i])
        IN /\ c \in Reachable
           /\ Touches(c, items[i])
           /\ \A d \in Reachable : d > c => ~Touches(d, items[i])

\* C1 witness: root -> c1 -> c2 -> c3, c1 introduces a.txt, c2 modifies
\* only b.txt, c3 modifies only a.txt; {a.txt, b.txt} resolved from c3
C1_Witness ==
    /\ pc = "done" /\ result = "Ok" /\ revision = "HEAD"
    /\ items = <<"a.txt", "b.txt">>
    /\ MaxCommits >= 4
    /\ LET r == MaxCommits - 3
           c1 == MaxCommits - 2
           c2 == MaxCommits - 1
           c3 == MaxCommits
       IN /\ repo.parents[c1] = <<r>> /\ repo.parents[c2] = <<c1>>
          /\ repo.parents[c3] = <<c2>>
          /\ repo.tree[r]["a.txt"] = NoBlob /\ repo.tree[r]["b.txt"] # NoBlob
          /\ repo.tree[c1]["a.txt"] = c1 /\ repo.tree[c1]["b.txt"] = repo.tree[r]["b.txt"]
          /\ repo.tree[c2]["a.txt"] = c1 /\ repo.tree[c2]["b.txt"] = c2
          /\ repo.tree[c3]["a.txt"] = c3 /\ repo.tree[c3]["b.txt"] = c2
          /\ extensions[1].sha = OidToString(c3)
          /\ extensions[2].sha = OidToString(c2)

\* C2: no target ever holds a result whose commit has more than one parent.
C2_NoMergeAttached ==
    \A i \in ItemIds : Attached(i) => ~IsMerge(CommitOf(extensions[i]))

\* C2 witness: a merge whose tree differs from its first parent at a
\* requested path was walked while that path was unresolved, and the path
\* resolved to an older commit
C2_Witness ==
    \E i \in ItemIds : \E m \in Range(visited) :
        /\ IsMerge(m)
        /\ repo.tree[m][items[i]] # repo.tree[repo.parents[m][1]][items[i]]
        /\ Attached(i)
        /\ CommitOf(extensions[i]) < m
\* C3: after a commit has been processed, if every requested path is
\* resolved (the active set is empty) the walk ends at once: the next step
\* is the successful return, no further commit is loaded and no further
\* tree or diff is computed.
C3_EarlyTermination ==
    [][(pc = "walk" /\ visited # << >> /\ items # << >> /\ paths = << >>) =>
         (pc' = "done" /\ result' = "Ok" /\ visited' = visited
            /\ computed' = computed)]_vars

AccessFailures == {"walk", "commit", "parent", "tree", "diff"}
\* the commits processed before the failing one that touch path p
NewerTouching(p) == {d \in Range(visited) : d # failedAt /\ Touches(d, p)}
Newest(S) == CHOOSE x \in S : \A y \in S : y <= x

\* C4: a commit, tree or diff access failure during the walk makes the call
\* return an error; every target resolved by a newer commit holds exactly
\* that result and every other target has no attachment.
C4_AccessFailure ==
    exit \in AccessFailures =>
        /\ result = "Err"
        /\ \A i \in ItemIds :
              IF NewerTouching(items[i]) = {} THEN ~Attached(i)
              ELSE /\ Attached(i)
                   /\ CommitOf(extensions[i]) = Newest(NewerTouching(items[i]))

\* C5: every attached commit is the starting revision's commit or one of
\* its ancestors.
C5_OnlyReachable ==
    \A i \in ItemIds : Attached(i) => CommitOf(extensions[i]) \in Reachable

\* C5 witness: resolving from origin/master, a path that the unpushed HEAD
\* commit touched is attached to a commit reachable from origin/master
C5_Witness ==
    /\ revision = "origin/master"
    /\ \E i \in ItemIds :
          /\ Attached(i)
          /\ \E u \in Commits \ Reachable : Touches(u, items[i])

\* C6: an unresolvable revision in a discovered repository makes the call
\* return an error with no commit walked and no target attached.
C6_BadRevision ==
    (pc = "done" /\ exit # "discover" /\ revision \notin DOMAIN repo.refs) =>
        /\ result = "Err"
        /\ visited = << >>
        /\ \A i \in ItemIds : ~Attached(i)

\* C7: when discovery fails or the push of the start commit fails, the call
\* returns Ok, no commit is processed and no target has an attachment.
C7_SoftFailure ==
    exit \in {"discover", "push"} =>
        /\ result = "Ok"
        /\ visited = << >> /\ computed = {}
        /\ \A i \in ItemIds : ~Attached(i)

\* C7 witness: the push failed for a call with items to resolve
C7_Witness == exit = "push" /\ items # << >> /\ pc = "done"

\* C8: once a root commit has been processed, a path present in its tree
\* that no non-merge commit walked before it matched is attached to it.
C8_RootTree ==
    \A i \in ItemIds : \A r \in Range(visited) :
        ( /\ IsRoot(r) /\ r # failedAt
          /\ repo.tree[r][items[i]] # NoBlob
          /\ \A d \in Range(visited) : d > r => ~Touches(d, items[i]) )
        => (Attached(i) /\ CommitOf(extensions[i]) = r)

\* C8 witness: a path introduced in the root and left alone by a newer
\* walked non-merge commit is attached to the root
C8_Witness ==
    \E i \in ItemIds : \E r \in Range(visited) :
        /\ IsRoot(r) /\ Attached(i) /\ CommitOf(extensions[i]) = r
        /\ \E d \in Range(visited) :
              d > r /\ ~IsMerge(d) /\ repo.tree[d][items[i]] = repo.tree[r][items[i]]

\* C9: when the walker is exhausted the call returns Ok, the targets still
\* in the active set have no attachment, and a path that no reachable
\* commit touches is among them.
C9_Exhausted ==
    exit = "exhausted" =>
        /\ result = "Ok"
        /\ \A i \in Range(paths) : ~Attached(i)
        /\ \A i \in ItemIds :
              (\A d \in Reachable : ~Touches(d, items[i]))
                 => (i \in Range(paths) /\ ~Attached(i))

\* C9 witness: the walk ended with a path left that is in no reachable
\* commit's tree, while another path was resolved
C9_Witness ==
    /\ exit = "exhausted" /\ paths # << >>
    /\ \E i \in Range(paths) : \A d \in Reachable : repo.tree[d][items[i]] = NoBlob
    /\ \E j \in ItemIds : Attached(j)

\* C10: metadata is extracted at most once per commit id, and two targets
\* that resolve to the same commit id hold the same Arc allocation.
C10_SharedInstance ==
    /\ \A c \in Commits : extracted[c] <= 1
    /\ \A i, j \in ItemIds :
          (Attached(i) /\ Attached(j) /\ extensions[i].sha = extensions[j].sha)
             => extensions[i].ptr = extensions[j].ptr

\* C10 witness: two targets with distinct paths resolved to the same commit
C10_Witness ==
    \E i, j \in ItemIds :
        /\ items[i] # items[j]
        /\ Attached(i) /\ Attached(j)
        /\ extensions[i].sha = extensions[j].sha

\* C11: a commit whose message cannot be decoded does not fail the call: a
\* path that matches it gets its LastCommit attached and the call goes on
\* to a normal outcome.
C11_LossyMessage ==
    exit = "summary" =>
        /\ result \in {"Ok", "Err"}
        /\ \E i \in ItemIds :
              Attached(i) /\ CommitOf(extensions[i]) = failedAt

\* C12: a malformed path makes the call return an error value before the
\* walk begins, with no commit visited and no target attached.
C12_MalformedPath ==
    (pc = "done" /\ exit = "malformed") =>
        /\ result = "Err"
        /\ visited = << >>
        /\ \A i \in ItemIds : ~Attached(i)

C14_HeadIsDefault ==
    (round = 2 /\ pc = "done") =>
        /\ exit = first.exit /\ failedAt = first.failedAt
        /\ result = first.result
        /\ \A i \in ItemIds :
              Attached(i) <=> first.values[i] # ValueOf(NoExt)
        /\ \A i \in ItemIds :
              Attached(i) => ValueOf(extensions[i]) = first.values[i]

\* C14 witness: both calls are over and resolved a path to a commit that
\* origin/master does not reach
C14_Witness ==
    /\ round = 2 /\ pc = "done" /\ result = "Ok"
    /\ \E i \in ItemIds :
          /\ Attached(i)
          /\ CommitOf(extensions[i]) \notin Ancestors(repo, repo.refs["origin/master"])

\* C15: within a call a target's result is write-once: an attached target
\* is not in the active set, its attachment never changes, and during the
\* walk the active set never gets longer.
C15_WriteOnce ==
    [][ /\ \A i \in ItemIds :
             Attached(i) => (extensions'[i] = extensions[i]
                               /\ i \notin Range(paths) /\ i \notin Range(paths'))
        /\ \A i \in ItemIds : extensions'[i] # NoExt => i \notin Range(paths')
        /\ pc = "walk" => Len(paths') <= Len(paths) ]_vars

\* C15 witness: after a path was resolved the walk went over an older commit
\* that touches the same path
C15_Witness ==
    \E i \in ItemIds :
        /\ Attached(i)
        /\ \E d \in Range(visited) :
              d < CommitOf(extensions[i]) /\ Touches(d, items[i])

\* C16: a call ends as Done-Success or Done-Error and in no other way, and
\* Done-Error comes only from revision resolution, pathspec compilation or
\* a commit, tree or diff access.
C16_TwoOutcomes ==
    pc = "done" =>
        /\ result \in {"Ok", "Err"}
        /\ result = "Err" =>
              exit \in {"revision", "malformed", "walk", "commit", "parent",
                        "tree", "diff"}

\* C17: the step that processes a merge commit computes no tree or diff and
\* leaves the active set, the cache and the attachments as they were.
C17_MergeNoOp ==
    [][ ( /\ pc = "walk" /\ revwalk # << >>
          /\ IsMerge(Head(revwalk))
          /\ visited' = Append(visited, Head(revwalk)) )
        => ( /\ paths' = paths /\ cache' = cache
             /\ extensions' = extensions /\ computed' = computed
             /\ pc' = "walk" ) ]_vars

\* C17 witness: the commit processed last is a merge whose tree differs from
\* its first parent at a path that is still unresolved
C17_Witness ==
    /\ pc = "walk" /\ visited # << >>
    /\ LET m == visited[Len(visited)]
       IN /\ IsMerge(m)
          /\ \E i \in Range(paths) :
                repo.tree[m][items[i]] # repo.tree[repo.parents[m][1]][items[i]]

CacheKeys == {c \in Commits : cache[c] # NoExt}
AttachedCommits == {CommitOf(extensions[i]) : i \in {j \in ItemIds : Attached(j)}}

\* C18: a cache entry, once created, is never replaced or removed (every
\* attachment is still the entry of its commit), and the cache's keys are
\* exactly the commits attached to some target so far: no merge commit and
\* no commit that matched no path is among them.
C18_CacheGrows ==
    [][ /\ \A c \in Commits : cache[c] # NoExt => cache'[c] = cache[c]
        /\ CacheKeys = AttachedCommits
        /\ CacheKeys' = AttachedCommits'
        /\ \A i \in ItemIds :
              extensions'[i] # NoExt
                 => cache'[CommitOf(extensions'[i])] = extensions'[i]
        /\ \A c \in CacheKeys' :
              ~IsMerge(c) /\ \E i \in ItemIds : Touches(c, items[i]) ]_vars

\* C18 witness: the cache holds two entries and a walked commit that
\* matched no path is not among its keys
C18_Witness ==
    /\ Cardinality(CacheKeys) >= 2
    /\ \E d \in Range(visited) : ~IsMerge(d) /\ d \notin CacheKeys

\* C19: between two commits of the walk every target is either in the active
\* set or has an attachment, never both and never neither, and the active
\* set lists its targets once each, in input order.
C19_Partition ==
    pc = "walk" =>
        /\ \A i \in ItemIds : (i \in Range(paths)) <=> ~Attached(i)
        /\ \A k, l \in 1..Len(paths) : k < l => paths[k] < paths[l]

\* C19 witness: after a commit the first target is resolved and the second
\* one was carried forward
C19_Witness ==
    /\ pc = "walk" /\ visited # << >>
    /\ Len(items) >= 2
    /\ Attached(1) /\ 2 \in Range(paths)

\* C20: the checks run in the order discovery, paths, revision, push, walk
\* and the first that fails ends the call: a failed discovery gives Ok
\* whatever the revision and the paths are, a malformed path ends the call
\* before the revision is looked at, an unresolvable revision before the
\* push, and a call that reaches the push or the walk passed all of them.
C20_CheckOrder ==
    pc = "done" =>
        /\ exit = "discover" => (result = "Ok" /\ paths = << >>)
        /\ (exit # "discover" /\ Malformed \in Range(items))
              => (exit = "malformed" /\ visited = << >>)
        /\ (exit # "discover" /\ Malformed \notin Range(items)
              /\ revision \notin DOMAIN repo.refs)
              => (exit = "revision" /\ Len(paths) = Len(items)
                    /\ visited = << >>)
        /\ exit = "push" => visited = << >>
        /\ exit \notin {"discover", "malformed", "revision"}
              => (Malformed \notin Range(items) /\ revision \in DOMAIN repo.refs)

\* C20 witness: a call with an unresolvable revision and a malformed second
\* path ended at the malformed path, after the first path was compiled
C20_Witness ==
    /\ pc = "done" /\ exit = "malformed"
    /\ revision \notin DOMAIN repo.refs
    /\ Len(items) >= 2 /\ items[2] = Malformed /\ paths = <<1>>
====
